---- MODULE Spec2Model ----
(***************************************************************************)
(* Model of the Wordy plugin (src/main.ts): the sentence extraction around *)
(* a span (getSentenceUnderCursor / findWordBoundaries), the per-category  *)
(* result caches and getCacheOrFetch, the coordinators createCommandModal  *)
(* and createWordMenu, createMenuForWords, the alliterative-synonym        *)
(* command and the "Clear cache" button.                                   *)
(*                                                                         *)
(* A JavaScript string is a sequence of one-character strings; JavaScript  *)
(* indices are 0-based, so text[i] of the source is text[i + 1] here.      *)
(***************************************************************************)
EXTENDS Integers, Sequences, FiniteSets, TLC

VARIABLES
    ex,          \* one run of getSentenceUnderCursor: its inputs and its result
    scan,        \* one run of findWordBoundaries, statement by statement
    cacheObjs,   \* the heap: the contents of every WordyCache object
    caches,      \* WordyPlugin.caches: a reference to a WordyCache object
    settings,    \* WordyPlugin.settings
    calls,       \* every call of a process function so far, in order of start
    lastDone,    \* per category and word: the result the latest completed
                 \* process call returned since the latest "Clear cache"
    menu,        \* one run of createMenuForWords: its inputs and the menu
    asyn         \* the latest run of the wordy-asyn command

pluginVars == <<cacheObjs, caches, calls, lastDone>>

vars == <<ex, scan, cacheObjs, caches, settings, calls, lastDone, menu, asyn>>

-----------------------------------------------------------------------------
(* Bounds of the model                                                     *)

\* longest line of text the extraction is run on (the example line aside)
MaxLineLen == 7

-----------------------------------------------------------------------------
(* Characters and strings                                                  *)

\* main.ts:216  const sentenceEndings = ['.', '!', '?'];
sentenceEndings == {".", "!", "?"}

\* main.ts:226  /\s/ : the whitespace class of the regular expression
Whitespace == {" ", "\t"}

\* main.ts:222  the "5 words" of the scan: while (count < 5 ...)
WordLimit == 5

\* the characters the lines of the model are made of: a letter, a
\* whitespace character and a sentence ending
Chars == {"a", " ", "."}

Lines == UNION {[1..n -> Chars] : n \in 0..MaxLineLen}

\* "The quick brown fox jumps. Over the lazy dog."
ExampleLine ==
    <<"T","h","e"," ","q","u","i","c","k"," ","b","r","o","w","n"," ",
      "f","o","x"," ","j","u","m","p","s","."," ","O","v","e","r"," ",
      "t","h","e"," ","l","a","z","y"," ","d","o","g",".">>

\* "a b c d e f g h i j k l m": a line with more than 5 words on each side
\* of its middle and no sentence ending
LongLine ==
    <<"a"," ","b"," ","c"," ","d"," ","e"," ","f"," ","g"," ","h"," ",
      "i"," ","j"," ","k"," ","l"," ","m">>

\* "The quick brown fox jumps"
ExampleSentence == SubSeq(ExampleLine, 1, 25)

Min(a, b) == IF a < b THEN a ELSE b
Max(a, b) == IF a > b THEN a ELSE b

\* text[i] of JavaScript: the character at 0-based i, undefined outside
CharAt(text, i) ==
    IF i >= 0 /\ i < Len(text) THEN text[i + 1] ELSE "undefined"

\* String.prototype.substr(a, n): n characters from a (a mistaken use of
\* substr for substring)
substr(text, a, n) ==
    LET ca == Max(0, Min(a, Len(text)))
    IN  SubSeq(text, ca + 1, Min(Len(text), ca + Max(0, n)))

\* String.prototype.substring(a, b): both ends clamped to [0, length] and
\* swapped when a > b
substring(text, a, b) ==
    LET ca == Max(0, Min(a, Len(text)))
        cb == Max(0, Min(b, Len(text)))
    IN  SubSeq(text, Min(ca, cb) + 1, Max(ca, cb))

\* main.ts:242  the character class [.!?\s] of the trimming expression
IsTrimChar(c) == c \in sentenceEndings \/ c \in Whitespace

\* main.ts:242  ^[.!?\s]+ : the length of the leading run that is removed
RECURSIVE LeadingRun(_)
LeadingRun(s) ==
    IF s # <<>> /\ IsTrimChar(Head(s)) THEN 1 + LeadingRun(Tail(s)) ELSE 0

\* main.ts:242  [.!?\s]+$ : the length of the trailing run that is removed
RECURSIVE TrailingRun(_)
TrailingRun(s) ==
    IF s # <<>> /\ IsTrimChar(s[Len(s)])
    THEN 1 + TrailingRun(SubSeq(s, 1, Len(s) - 1))
    ELSE 0

\* main.ts:242-243  .replace(/^[.!?\s]+|[.!?\s]+$/g, '')
replaceTrim(s) ==
    LET rest == SubSeq(s, LeadingRun(s) + 1, Len(s))
    IN  SubSeq(rest, 1, Len(rest) - TrailingRun(rest))

-----------------------------------------------------------------------------
(* findWordBoundaries, main.ts:218-233                                     *)

\* main.ts:222  while (count < 5 && index >= 0 && index < text.length)
LoopGuardOffByOne(text, index, count) ==
    count < WordLimit /\ index >= -1 /\ index <= Len(text)

LoopGuard(text, index, count) ==
    count < WordLimit /\ index >= 0 /\ index < Len(text)

\* the return after the loop without the adjustment of the backward scan
ExitValueNoAdjust(index, direction) == index

\* main.ts:232  return direction === -1 ? index + 1 : index;
ExitValue(index, direction) == IF direction = -1 THEN index + 1 ELSE index

RECURSIVE scanLoop(_, _, _, _)
scanLoop(text, index, count, direction) ==
    IF LoopGuard(text, index, count)
    THEN IF CharAt(text, index) \in sentenceEndings
         THEN index
         ELSE scanLoop(text, index + direction,
                       IF CharAt(text, index) \in Whitespace
                       THEN count + 1 ELSE count,
                       direction)
    ELSE ExitValue(index, direction)

findWordBoundaries(text, start, direction) ==
    scanLoop(text, start, 0, direction)

-----------------------------------------------------------------------------
(* getSentenceUnderCursor, main.ts:214-245                                 *)

\* main.ts:236  const start = findWordBoundaries(line, from.ch, -1);
SentenceStart(line, fromCh) == findWordBoundaries(line, fromCh, -1)

\* main.ts:239  const end = findWordBoundaries(line, to.ch, 1);
SentenceEnd(line, toCh) == findWordBoundaries(line, toCh, 1)

getSentenceUnderCursor(line, fromCh, toCh) ==
    replaceTrim(substring(line, SentenceStart(line, fromCh),
                          SentenceEnd(line, toCh)))

\* where the sentence starts in the line: the start of the substring plus
\* the leading run the trimming removed
SentenceOffset(line, fromCh, toCh) ==
    LET s == SentenceStart(line, fromCh)
        e == SentenceEnd(line, toCh)
        lo == Max(0, Min(Min(s, e), Len(line)))
    IN  lo + LeadingRun(substring(line, s, e))

\* the span [fromCh, toCh) of a word: not empty, made of word characters
IsWordSpan(line, fromCh, toCh) ==
    /\ fromCh < toCh
    /\ \A i \in fromCh..(toCh - 1) : ~IsTrimChar(CharAt(line, i))

-----------------------------------------------------------------------------
(* Settings, main.ts:17-35                                                 *)

\* main.ts:33  editorMenuMaxResults: 15
DefaultEditorMenuMaxResults == 15

\* main.ts:27-35 (suggestionsMaxResults is read nowhere)
DEFAULT_SETTINGS ==
    [toggleEditorMenu |-> TRUE,
     toggleSynonymEditorMenu |-> TRUE,
     toggleAntonymEditorMenu |-> TRUE,
     toggleRhymeEditorMenu |-> TRUE,
     editorMenuMaxResults |-> DefaultEditorMenuMaxResults]

-----------------------------------------------------------------------------
(* SimpleWordCache and the caches, main.ts:37-72                           *)
(* A word of the coordinator is an opaque string; "" is the empty string.  *)

\* the keys of the caches object, main.ts:64-66
Categories == {"syn", "ant", "rhy"}

\* main.ts:46  this.map = new Map();
NewSimpleWordCache == [w \in {} |-> <<>>]

\* main.ts:49-51  return this.map.get(word[0]) || [];
get(cache, word) ==
    IF word[1] \in DOMAIN cache THEN cache[word[1]] ELSE <<>>

\* a set that stores nothing
setNoStore(cache, word, results) == cache

\* main.ts:53-55  this.map.set(word[0], results);
set(cache, word, results) ==
    [w \in DOMAIN cache \cup {word[1]} |->
        IF w = word[1] THEN results ELSE cache[w]]

\* main.ts:63  the one object the constant EMPTY_CACHE is bound to
EMPTY_CACHE == "EMPTY_CACHE"

\* main.ts:63-67  the object literal, evaluated once when the module loads
InitialCacheObjs ==
    [o \in {EMPTY_CACHE} |-> [c \in Categories |-> NewSimpleWordCache]]

-----------------------------------------------------------------------------
(* createMenuForWords, main.ts:290-322                                     *)

\* Array.prototype.slice(0, end): a negative end counts from the length
slice0(words, end) ==
    LET n == Len(words)
        e == IF end < 0 THEN Max(n + end, 0) ELSE Min(end, n)
    IN  SubSeq(words, 1, e)

\* an overflow test that also fires when the list just fits
HasMoreOrEqual(n, max) == n >= max

\* main.ts:307  if (words.length > this.settings.editorMenuMaxResults)
HasMore(n, max) == n > max

MenuItem(kind, title, count) == [kind |-> kind, title |-> title, count |-> count]

createMenuForWords(words, max) ==
    LET direct == slice0(words, max)
    IN  (IF Len(words) = 0
         THEN <<MenuItem("info", "No results found.", 0)>> ELSE <<>>)
        \o [i \in 1..Len(direct) |-> MenuItem("replace", direct[i], 0)]
        \o (IF HasMore(Len(words), max)
            THEN <<MenuItem("separator", "", 0),
                   MenuItem("more", "More...", Len(words) - max)>>
            ELSE <<>>)

-----------------------------------------------------------------------------
(* getRootSelection, main.ts:247-266                                       *)

\* editor.wordAt(cursor) returning null
NoWordAt == "#null"

\* the word of the result (from, to and sentence are read by no process
\* function; the no-target result has from = to = 0:0 and sentence "")
getRootSelection(selection, cursorWordAt) ==
    IF selection # "" THEN [word |-> selection, target |-> TRUE]
    ELSE IF cursorWordAt = NoWordAt THEN [word |-> "", target |-> FALSE]
    ELSE [word |-> cursorWordAt, target |-> TRUE]

-----------------------------------------------------------------------------
(* getCacheOrFetch and the coordinators, main.ts:185-212 and 268-288       *)

\* a test that never takes the cached branch
IsHitNever(cached) == FALSE

\* main.ts:205  if (cached.length > 0)
IsHit(cached) == Len(cached) > 0

\* main.ts:270-281  createCommandModal after the await
commandUi(results) ==
    IF Len(results) = 0
    THEN [kind |-> "notice", items |-> <<"Oops - No results found.">>]
    ELSE [kind |-> "modal", items |-> results]

\* main.ts:286-287  createWordMenu after the await
menuUi(results, max) ==
    [kind |-> "menu", items |-> createMenuForWords(results, max)]

NoUi == [kind |-> "none", items |-> <<>>]

uiOf(origin, results, max) ==
    IF origin = "menu" THEN menuUi(results, max) ELSE commandUi(results)

\* main.ts:204-209  a process call up to its first suspension: the cached
\* list is returned (and the coordinator continues) or the fetch is issued.
\* cacheRef is the cache object the call read and will write; fetches counts
\* the calls of the fetch function and prior records lastDone at the call:
\* both are history, read by no action.
startCall(cat, word, origin, objs, ref, last, max) ==
    LET cached == get(objs[ref][cat], <<word>>)
    IN  IF IsHit(cached)
        THEN [cat |-> cat, word |-> word, origin |-> origin, cacheRef |-> ref,
              status |-> "fulfilled", results |-> cached, fetches |-> 0,
              prior |-> last[cat][word], ui |-> uiOf(origin, cached, max)]
        ELSE [cat |-> cat, word |-> word, origin |-> origin, cacheRef |-> ref,
              status |-> "pending", results |-> <<>>, fetches |-> 1,
              prior |-> last[cat][word], ui |-> NoUi]

\* a rejection handler that stores an empty list for the word
cacheAfterRejectStoresEmpty(objs, call) ==
    [objs EXCEPT ![call.cacheRef][call.cat] = set(@, <<call.word>>, <<>>)]

\* main.ts:209-210  the await throws: cache.set is not reached
cacheAfterReject(objs, call) == objs

\* main.ts:210  cache.set([word], results);
cacheAfterResolve(objs, call, results) ==
    [objs EXCEPT ![call.cacheRef][call.cat] = set(@, <<call.word>>, results)]

-----------------------------------------------------------------------------
(* The wordy-asyn command, main.ts:153-179                                 *)

\* the value of a destructured element that does not exist
Undefined == <<"#undefined">>

\* String.prototype.split(" "): the pieces between the spaces
RECURSIVE split(_, _)
split(s, piece) ==
    IF s = <<>> THEN <<piece>>
    ELSE IF Head(s) = " " THEN <<piece>> \o split(Tail(s), <<>>)
    ELSE split(Tail(s), Append(piece, Head(s)))

\* const [priorWord, rootWord] = ... : element i (0-based) or undefined
element(parts, i) == IF i < Len(parts) THEN parts[i + 1] ELSE Undefined

\* main.ts:157
priorWordOf(selection) == element(split(selection, <<>>), 0)
rootWordOf(selection) == element(split(selection, <<>>), 1)

\* main.ts:158  if (rootWord != "") : undefined != "" is true
rootWordGiven(rootWord) == rootWord # <<>>

-----------------------------------------------------------------------------
(* Spec: the commands, the editor menu, the fetches and "Clear cache"      *)

\* most process calls of one behaviour
MaxCalls == 3

\* the words the editor can hold under the cursor or in the selection
Words == {"happy"}

\* what the lexical client can answer: nothing, or a list of words
FetchResults == {<<>>, <<"glad", "merry">>}

\* the order in which the editor-menu handler adds its items, main.ts:89-117
CategoryOrder == <<"syn", "ant", "rhy">>

toggleOf(cat) ==
    CASE cat = "syn" -> settings.toggleSynonymEditorMenu
      [] cat = "ant" -> settings.toggleAntonymEditorMenu
      [] cat = "rhy" -> settings.toggleRhymeEditorMenu

\* the words a process function can be called with: "" when there is no
\* target
Keys == Words \cup {""}

NothingDone == [c \in Categories |-> [w \in Keys |-> <<>>]]

PluginIdle ==
    /\ cacheObjs = InitialCacheObjs
    /\ caches = EMPTY_CACHE
    /\ calls = <<>>
    /\ lastDone = NothingDone

\* the parts of the state a specification does not use stay as they are here
ExIdle == [phase |-> "idle", line |-> <<>>, fromCh |-> 0, toCh |-> 0,
           sentence |-> <<>>, first |-> <<>>]

ScanIdle == [pc |-> "idle", text |-> <<>>, start |-> 0, direction |-> 1,
             index |-> 0, count |-> 0, ret |-> 0]

MenuIdle == [built |-> FALSE, words |-> <<>>, max |-> 0, items |-> <<>>]

AsynIdle == [stage |-> "idle", selection |-> <<>>, priorWord |-> <<>>,
             rootWord |-> <<>>, results |-> <<>>]

Init ==
    /\ PluginIdle
    /\ settings = DEFAULT_SETTINGS
    /\ ex = ExIdle
    /\ scan = ScanIdle
    /\ menu = MenuIdle
    /\ asyn = AsynIdle

\* the results of the calls that completed in their first step
doneBy(last, new) ==
    [c \in Categories |-> [w \in Keys |->
        IF \E i \in 1..Len(new) :
              new[i].cat = c /\ new[i].word = w /\ new[i].status = "fulfilled"
        THEN (CHOOSE r \in {new[i].results : i \in
                  {j \in 1..Len(new) : new[j].cat = c /\ new[j].word = w}} : TRUE)
        ELSE last[c][w]]]

\* main.ts:129-151 and 268-282: a wordy-syn / wordy-ant / wordy-rhy command
Command(cat, selection, cursorWordAt) ==
    /\ Len(calls) < MaxCalls
    /\ LET root == getRootSelection(selection, cursorWordAt)
           new == <<startCall(cat, root.word, "command", cacheObjs, caches,
                              lastDone, settings.editorMenuMaxResults)>>
       IN  /\ calls' = calls \o new
           /\ lastDone' = doneBy(lastDone, new)
    /\ UNCHANGED <<cacheObjs, caches, settings, ex, scan, menu, asyn>>

\* main.ts:83-119 and 284-288: the editor-menu handler, one createWordMenu
\* per enabled category
EditorMenu(selection, cursorWordAt) ==
    LET enabled == IF settings.toggleEditorMenu
                   THEN SelectSeq(CategoryOrder, toggleOf) ELSE <<>>
        root == getRootSelection(selection, cursorWordAt)
        new == [i \in 1..Len(enabled) |->
                   startCall(enabled[i], root.word, "menu", cacheObjs, caches,
                             lastDone, settings.editorMenuMaxResults)]
    IN  /\ Len(calls) + Len(enabled) <= MaxCalls
        /\ calls' = calls \o new
        /\ lastDone' = doneBy(lastDone, new)
        /\ UNCHANGED <<cacheObjs, caches, settings, ex, scan, menu, asyn>>

\* main.ts:209-211 and the coordinator's continuation: a fetch resolves
FetchResolve(k, results) ==
    /\ calls[k].status = "pending"
    /\ cacheObjs' = cacheAfterResolve(cacheObjs, calls[k], results)
    /\ calls' = [calls EXCEPT ![k] =
                    [@ EXCEPT !.status = "fulfilled",
                              !.results = results,
                              !.ui = uiOf(calls[k].origin, results,
                                          settings.editorMenuMaxResults)]]
    /\ lastDone' = [lastDone EXCEPT ![calls[k].cat][calls[k].word] = results]
    /\ UNCHANGED <<caches, settings, ex, scan, menu, asyn>>

\* main.ts:209: a fetch rejects; the rejection leaves getCacheOrFetch, the
\* process function and the coordinator, none of which catches it
FetchReject(k) ==
    /\ calls[k].status = "pending"
    /\ cacheObjs' = cacheAfterReject(cacheObjs, calls[k])
    /\ calls' = [calls EXCEPT ![k] = [@ EXCEPT !.status = "rejected"]]
    /\ UNCHANGED <<caches, lastDone, settings, ex, scan, menu, asyn>>

\* main.ts:510-513: the "Clear cache" button
ClearCache ==
    /\ caches' = EMPTY_CACHE
    /\ lastDone' = NothingDone
    /\ UNCHANGED <<cacheObjs, calls, settings, ex, scan, menu, asyn>>

Next ==
    \/ \E cat \in Categories, selection \in Words \cup {""},
          cursorWordAt \in Words \cup {NoWordAt} :
          Command(cat, selection, cursorWordAt)
    \/ \E selection \in Words \cup {""}, cursorWordAt \in Words \cup {NoWordAt} :
          EditorMenu(selection, cursorWordAt)
    \/ \E k \in 1..Len(calls), results \in FetchResults : FetchResolve(k, results)
    \/ \E k \in 1..Len(calls) : FetchReject(k)
    \/ ClearCache

Spec == Init /\ [][Next]_vars

-----------------------------------------------------------------------------
(* MenuSpec: createMenuForWords for every list and setting of the bounds   *)

\* longest result list handed to the menu (the 20-word example aside)
MaxMenuWords == 4

\* largest editorMenuMaxResults typed into the settings tab (15 aside)
MaxMenuSetting == 5

MenuWordPool == {"glad", "merry"}

\* a result list of 20 words
ExampleResults ==
    <<"w01", "w02", "w03", "w04", "w05", "w06", "w07", "w08", "w09", "w10",
      "w11", "w12", "w13", "w14", "w15", "w16", "w17", "w18", "w19", "w20">>

MenuWordLists ==
    UNION {[1..n -> MenuWordPool] : n \in 0..MaxMenuWords} \cup {ExampleResults}

MenuInit ==
    /\ settings = DEFAULT_SETTINGS
    /\ menu = MenuIdle
    /\ PluginIdle
    /\ ex = ExIdle
    /\ scan = ScanIdle
    /\ asyn = AsynIdle

\* main.ts:494-499: the "Max results" text field, parseInt(value) an integer
SetMaxResults(value) ==
    /\ settings' = [settings EXCEPT !.editorMenuMaxResults = value]
    /\ UNCHANGED <<menu, pluginVars, ex, scan, asyn>>

\* main.ts:290-322: createMenuForWords on a fresh submenu
BuildMenu(words) ==
    /\ menu' = [built |-> TRUE, words |-> words,
                max |-> settings.editorMenuMaxResults,
                items |-> createMenuForWords(words, settings.editorMenuMaxResults)]
    /\ UNCHANGED <<settings, pluginVars, ex, scan, asyn>>

MenuNext ==
    \/ \E value \in (-1..MaxMenuSetting) \cup {DefaultEditorMenuMaxResults} :
          SetMaxResults(value)
    \/ \E words \in MenuWordLists : BuildMenu(words)

MenuSpec == MenuInit /\ [][MenuNext]_vars

-----------------------------------------------------------------------------
(* AsynSpec: the wordy-asyn command on every selection of the bounds       *)

\* longest selection text (the two example selections aside)
MaxSelectionLen == 4

SelectionChars == {"a", "b", " "}

\* "big brave", "big", "brave"
BigBrave == <<"b","i","g"," ","b","r","a","v","e">>
Big == <<"b","i","g">>
Brave == <<"b","r","a","v","e">>

Selections ==
    UNION {[1..n -> SelectionChars] : n \in 0..MaxSelectionLen}
        \cup {BigBrave, Brave}

\* what alliterativeSynonyms can answer
AsynResults == {<<>>, <<"bold">>}

AsynInit ==
    /\ asyn = AsynIdle
    /\ PluginIdle
    /\ settings = DEFAULT_SETTINGS
    /\ ex = ExIdle
    /\ scan = ScanIdle
    /\ menu = MenuIdle

\* main.ts:156-163 and 175-177: the command up to its await, or its notice
AsynCommand(selection) ==
    /\ asyn.stage # "fetching"
    /\ LET priorWord == priorWordOf(selection)
           rootWord == rootWordOf(selection)
       IN  asyn' = [stage |-> IF rootWordGiven(rootWord)
                              THEN "fetching" ELSE "selectNotice",
                    selection |-> selection, priorWord |-> priorWord,
                    rootWord |-> rootWord, results |-> <<>>]
    /\ UNCHANGED <<pluginVars, settings, ex, scan, menu>>

\* main.ts:164-174: alliterativeSynonyms resolves
AsynResolve(results) ==
    /\ asyn.stage = "fetching"
    /\ asyn' = [asyn EXCEPT !.results = results,
                            !.stage = IF Len(results) = 0
                                      THEN "noRhymesNotice" ELSE "modal"]
    /\ UNCHANGED <<pluginVars, settings, ex, scan, menu>>

\* main.ts:160: alliterativeSynonyms rejects
AsynReject ==
    /\ asyn.stage = "fetching"
    /\ asyn' = [asyn EXCEPT !.stage = "rejected"]
    /\ UNCHANGED <<pluginVars, settings, ex, scan, menu>>

AsynNext ==
    \/ \E selection \in Selections : AsynCommand(selection)
    \/ \E results \in AsynResults : AsynResolve(results)
    \/ AsynReject

AsynSpec == AsynInit /\ [][AsynNext]_vars

-----------------------------------------------------------------------------
(* TextSpec: getSentenceUnderCursor on every line and span of the bounds,  *)
(* then once more on its own result                                        *)

TextInit ==
    /\ \E line \in Lines \cup {ExampleLine, LongLine} :
       \E fromCh \in 0..Len(line) :
       \E toCh \in fromCh..Len(line) :
          ex = [phase |-> "input", line |-> line, fromCh |-> fromCh,
                toCh |-> toCh, sentence |-> <<>>, first |-> <<>>]
    /\ scan = ScanIdle
    /\ PluginIdle
    /\ settings = DEFAULT_SETTINGS
    /\ menu = MenuIdle
    /\ asyn = AsynIdle

\* the call of getSentenceUnderCursor(editor, from, to)
Extract ==
    /\ ex.phase = "input"
    /\ ex' = [ex EXCEPT !.phase = "extracted",
                        !.sentence = getSentenceUnderCursor(ex.line, ex.fromCh, ex.toCh)]
    /\ UNCHANGED <<scan, pluginVars, settings, menu, asyn>>

\* the extraction run again, with its own result as the line and the span
\* moved to where the word lies in that result
ReExtract ==
    /\ ex.phase = "extracted"
    /\ IsWordSpan(ex.line, ex.fromCh, ex.toCh)
    /\ LET off == SentenceOffset(ex.line, ex.fromCh, ex.toCh)
           f == ex.fromCh - off
           t == ex.toCh - off
       IN  ex' = [phase |-> "reextracted", line |-> ex.sentence,
                  fromCh |-> f, toCh |-> t,
                  sentence |-> getSentenceUnderCursor(ex.sentence, f, t),
                  first |-> ex.sentence]
    /\ UNCHANGED <<scan, pluginVars, settings, menu, asyn>>

TextNext == Extract \/ ReExtract

TextSpec == TextInit /\ [][TextNext]_vars

-----------------------------------------------------------------------------
(* ScanSpec: findWordBoundaries one statement at a time                    *)

ScanInit ==
    /\ \E text \in Lines :
       \E start \in 0..Len(text) :
       \E direction \in {-1, 1} :
          scan = [pc |-> "while", text |-> text, start |-> start,
                  direction |-> direction, index |-> start, count |-> 0,
                  ret |-> 0]
    /\ ex = ExIdle
    /\ PluginIdle
    /\ settings = DEFAULT_SETTINGS
    /\ menu = MenuIdle
    /\ asyn = AsynIdle

\* main.ts:222 and 232: the loop condition; the return after the loop
ScanWhile ==
    /\ scan.pc = "while"
    /\ IF LoopGuard(scan.text, scan.index, scan.count)
       THEN scan' = [scan EXCEPT !.pc = "body"]
       ELSE scan' = [scan EXCEPT !.pc = "done",
                                 !.ret = ExitValue(scan.index, scan.direction)]
    /\ UNCHANGED <<ex, pluginVars, settings, menu, asyn>>

\* main.ts:223-229: the loop body, which reads text[index]
ScanBody ==
    /\ scan.pc = "body"
    /\ LET c == CharAt(scan.text, scan.index)
       IN  IF c \in sentenceEndings
           THEN scan' = [scan EXCEPT !.pc = "done", !.ret = scan.index]
           ELSE scan' = [scan EXCEPT
                           !.pc = "while",
                           !.count = IF c \in Whitespace THEN @ + 1 ELSE @,
                           !.index = @ + scan.direction]
    /\ UNCHANGED <<ex, pluginVars, settings, menu, asyn>>

ScanNext == ScanWhile \/ ScanBody

ScanSpec == ScanInit /\ [][ScanNext]_vars

-----------------------------------------------------------------------------
(* The sentence of a span, stated from the line alone                      *)

IsWsAt(line, i) == CharAt(line, i) \in Whitespace
IsEndAt(line, i) == CharAt(line, i) \in sentenceEndings

\* the number of whitespace characters at the indices a..b of the line
WsCount(line, a, b) == Cardinality({i \in a..b : IsWsAt(line, i)})

\* where the backward scan from fromCh halts: at the nearest sentence
\* ending, at the fifth whitespace character, or at the start of the line
BackwardHalt(line, fromCh) ==
    IF fromCh >= Len(line) THEN Len(line)
    ELSE LET endings == {i \in 0..fromCh : IsEndAt(line, i)}
             fifth == {i \in 0..fromCh :
                         IsWsAt(line, i) /\ WsCount(line, i, fromCh) = WordLimit}
             halts == endings \cup fifth \cup {0}
         IN  CHOOSE h \in halts : \A g \in halts : g <= h

\* where the forward scan from toCh halts: at the nearest sentence ending,
\* just after the fifth whitespace character, or at the end of the line
ForwardHalt(line, toCh) ==
    LET last == Len(line) - 1
        endings == {i \in toCh..last : IsEndAt(line, i)}
        fifth == {i + 1 : i \in {j \in toCh..last :
                         IsWsAt(line, j) /\ WsCount(line, toCh, j) = WordLimit}}
        halts == endings \cup fifth \cup {Len(line)}
    IN  CHOOSE h \in halts : \A g \in halts : h <= g

\* the indices between the two halts that are left once the leading and
\* the trailing run of '.', '!', '?' and whitespace are removed
KeptIndices(line, fromCh, toCh) ==
    LET lo == BackwardHalt(line, fromCh)
        hi == ForwardHalt(line, toCh)
        solid == {i \in lo..(hi - 1) : ~IsTrimChar(CharAt(line, i))}
    IN  {i \in lo..(hi - 1) : \E a, b \in solid : a <= i /\ i <= b}

\* the number of whitespace-separated tokens among the indices a..b
Tokens(line, a, b) ==
    Cardinality({i \in a..b : ~IsWsAt(line, i) /\ (i = a \/ IsWsAt(line, i - 1))})

MinOf(S) == CHOOSE x \in S : \A y \in S : x <= y
MaxOf(S) == CHOOSE x \in S : \A y \in S : y <= x

\* C6: for every line and every span [fromCh, toCh) of it, the sentence is
\* the substring between the backward halt and the forward halt with the
\* leading and trailing runs of '.', '!', '?' and whitespace removed, each
\* scan halting at the first sentence ending, after 5 whitespace characters
\* or at the line edge; it has at most 5 whitespace-separated tokens on each
\* side of the span and no sentence ending outside the span; for the line
\* "The quick brown fox jumps. Over the lazy dog." and the span of "jumps"
\* it is "The quick brown fox jumps".
C6_SentenceIsBoundedContext ==
    ex.phase = "extracted" =>
        LET kept == KeptIndices(ex.line, ex.fromCh, ex.toCh)
        IN  /\ ex.sentence = IF kept = {} THEN <<>>
                             ELSE SubSeq(ex.line, MinOf(kept) + 1, MaxOf(kept) + 1)
            /\ kept # {} =>
                 /\ Tokens(ex.line, MinOf(kept), ex.fromCh - 1) <= WordLimit
                 /\ Tokens(ex.line, ex.toCh, MaxOf(kept)) <= WordLimit
            /\ \A i \in kept :
                 (i < ex.fromCh \/ i >= ex.toCh) => ~IsEndAt(ex.line, i)
            /\ (ex.line = ExampleLine /\ ex.fromCh = 20 /\ ex.toCh = 25)
                 => ex.sentence = ExampleSentence

\* the sentence of "jumps" in the example line has been extracted
C6_Witness ==
    /\ ex.phase = "extracted"
    /\ ex.line = ExampleLine
    /\ ex.fromCh = 20
    /\ ex.toCh = 25
    /\ ex.sentence = ExampleSentence

\* C8: sentence extraction is idempotent on its output: with the sentence s
\* of a word's span as the line, and the span moved to the word's place in
\* s, the extraction yields s again.
C8_ExtractionIdempotent ==
    ex.phase = "reextracted" => ex.sentence = ex.first

\* the sentence of a word with text on both sides of it in that sentence
\* was extracted again
C8_Witness ==
    /\ ex.phase = "reextracted"
    /\ ex.sentence = ex.first
    /\ ex.fromCh > 0
    /\ ex.toCh < Len(ex.line)
    /\ Len(ex.line) >= 3

\* C9: the boundary scan never reads a character outside the line: every
\* index at which findWordBoundaries reads the line, in either direction
\* and from every start column 0..length, is at least 0 and less than the
\* length of the line.
C9_ScanReadsInsideLine ==
    scan.pc = "body" => (0 <= scan.index /\ scan.index < Len(scan.text))

\* a scan that started at the end of a line has read the line's first
\* character
C9_Witness ==
    /\ scan.pc = "body"
    /\ scan.start = Len(scan.text) - 1
    /\ scan.direction = -1
    /\ scan.index = 0
    /\ Len(scan.text) >= 3

\* the statement-by-statement scan returns what findWordBoundaries returns
ScanAgrees ==
    scan.pc = "done" =>
        scan.ret = findWordBoundaries(scan.text, scan.start, scan.direction)

-----------------------------------------------------------------------------
(* Claims about the caches and the coordinators (Spec)                     *)

CallIds == 1..Len(calls)

\* the fetches of category c and word w that are issued and not yet settled
Outstanding(cs, c, w) ==
    Cardinality({k \in 1..Len(cs) :
        cs[k].cat = c /\ cs[k].word = w /\ cs[k].status = "pending"})

\* C1: when a process call for category c and word w has completed with a
\* non-empty result and process is then called again for c and w, with no
\* "Clear cache" in between, the second call returns the same list from the
\* cache and issues no fetch.
C1_SecondCallServedFromCache ==
    \A k \in CallIds :
        calls[k].prior # <<>> =>
            /\ calls[k].status = "fulfilled"
            /\ calls[k].results = calls[k].prior
            /\ calls[k].fetches = 0

\* a fetch for a word was resolved with a non-empty list, and a later call
\* for the same category and word returned that list without a fetch
C1_Witness ==
    \E j, k \in CallIds :
        /\ j < k
        /\ calls[j].cat = calls[k].cat
        /\ calls[j].word = calls[k].word
        /\ calls[j].fetches = 1
        /\ calls[j].status = "fulfilled"
        /\ calls[j].results # <<>>
        /\ calls[k].prior = calls[j].results
        /\ calls[k].fetches = 0
        /\ calls[k].results = calls[j].results

\* the step of the "Clear cache" handler, after some call has completed
ClearStep ==
    /\ lastDone # NothingDone
    /\ lastDone' = NothingDone
    /\ calls' = calls

\* C2: once "Clear cache" has run, get([w]) returns an empty sequence for
\* every word w in every category.
C2_ClearEmptiesEveryCategory ==
    [][ClearStep =>
          \A c \in Categories, w \in Keys :
              get(cacheObjs'[caches'][c], <<w>>) = <<>>]_vars

\* C3: a trigger with an empty selection and no word under the cursor makes
\* getRootSelection return word = "", and then no fetch is issued and no
\* cache entry is read or written: no process call is made for "".
C3_NoTargetNoLookup ==
    /\ \A k \in CallIds : calls[k].word # ""
    /\ \A c \in Categories : "" \notin DOMAIN cacheObjs[caches][c]

\* C5 as claimed: at most one fetch is outstanding per category and word.
C5_SingleOutstandingFetch ==
    \A c \in Categories, w \in Keys : Outstanding(calls, c, w) <= 1

\* C5 as amended: a process call issues a fetch exactly when the cache of
\* its category holds no non-empty list for its word at the call, whether
\* or not a fetch for the same category and word is in flight; it issues
\* at most one.
C5_FetchExactlyOnMiss ==
    [][\A k \in (Len(calls) + 1)..Len(calls') :
          /\ calls'[k].fetches =
                IF get(cacheObjs[calls'[k].cacheRef][calls'[k].cat],
                       <<calls'[k].word>>) = <<>>
                THEN 1 ELSE 0
          /\ (calls'[k].status = "pending") = (calls'[k].fetches = 1)]_vars

\* two fetches for one category and word are outstanding
C5_Witness ==
    \E j, k \in CallIds :
        /\ j < k
        /\ calls[j].cat = calls[k].cat
        /\ calls[j].word = calls[k].word
        /\ calls[j].status = "pending"
        /\ calls[k].status = "pending"

\* the step in which the fetch of call k rejects
RejectStep(k) ==
    /\ k \in 1..Len(calls)
    /\ calls[k].status = "pending"
    /\ Len(calls') = Len(calls)
    /\ calls'[k].status = "rejected"

\* C10: when the fetch of a process call rejects, the rejection reaches the
\* caller (the coordinator shows nothing), no set is performed, every
\* category cache holds the entries it held, and the call issued exactly
\* one fetch: there is no retry.
C10_RejectLeavesCaches ==
    [][\A k \in 1..Len(calls) :
          RejectStep(k) =>
              /\ cacheObjs' = cacheObjs
              /\ caches' = caches
              /\ calls'[k].fetches = 1
              /\ calls'[k].ui = NoUi
              /\ Outstanding(calls', calls[k].cat, calls[k].word)
                    = Outstanding(calls, calls[k].cat, calls[k].word) - 1]_vars

\* a fetch has rejected while a cache held a non-empty list
C10_Witness ==
    /\ \E k \in CallIds : calls[k].status = "rejected" /\ calls[k].fetches = 1
    /\ \E c \in Categories, w \in Keys : get(cacheObjs[caches][c], <<w>>) # <<>>

-----------------------------------------------------------------------------
(* Claims about createMenuForWords (MenuSpec) and wordy-asyn (AsynSpec)    *)

IsReplace(item) == item.kind = "replace"
IsMore(item) == item.kind = "more"

\* C7: for a list of n words and editorMenuMaxResults = m >= 0 the menu
\* holds exactly min(n, m) direct replacement entries, in the order of the
\* list, and exactly one "More..." entry, labelled n - m, if and only if
\* n > m; m = 15 and n = 20 give 15 direct entries and one labelled 5.
C7_MenuTruncation ==
    (menu.built /\ menu.max >= 0) =>
        LET n == Len(menu.words)
            m == menu.max
            direct == SelectSeq(menu.items, IsReplace)
            more == SelectSeq(menu.items, IsMore)
        IN  /\ Len(direct) = Min(n, m)
            /\ \A i \in 1..Len(direct) : direct[i].title = menu.words[i]
            /\ Len(more) = IF n > m THEN 1 ELSE 0
            /\ \A i \in 1..Len(more) : more[i].count = n - m
            /\ (n = 20 /\ m = 15) =>
                  (Len(direct) = 15 /\ Len(more) = 1 /\ more[1].count = 5)

\* the menu of the 20-word list under the default setting of 15 was built
C7_Witness ==
    /\ menu.built
    /\ menu.words = ExampleResults
    /\ menu.max = DefaultEditorMenuMaxResults
    /\ Len(SelectSeq(menu.items, IsReplace)) = 15
    /\ Len(SelectSeq(menu.items, IsMore)) = 1

HasSpace(s) == \E i \in 1..Len(s) : s[i] = " "

\* C4: the selection text is split at its first space into priorWord and
\* rootWord, "big brave" giving "big" and "brave"; for a selection text
\* with no space rootWord is empty, the "select a word first" notice is
\* produced and alliterativeSynonyms is never called.
C4_NoSpaceGivesNotice ==
    asyn.stage # "idle" =>
        /\ asyn.selection = BigBrave =>
              (asyn.priorWord = Big /\ asyn.rootWord = Brave)
        /\ ~HasSpace(asyn.selection) =>
              (asyn.rootWord = <<>> /\ asyn.stage = "selectNotice")

====
